---- MODULE Spec2Model ----
(***************************************************************************)
(* Model of solution.js: recovery of the constant term of a polynomial    *)
(* from points whose y-values are digit strings in a radix 2..36.         *)
(*                                                                         *)
(* Strings are sequences of UTF-16 code units (integers); BigInt values   *)
(* are integers.  A JavaScript value that may be `undefined` is a record  *)
(* [def |-> BOOLEAN, ...].                                                 *)
(***************************************************************************)
EXTENDS Integers, Sequences, FiniteSets

VARIABLES
    doc,        \* the parsed JSON document: its non-"keys" entries in document order
    keys,       \* data.keys: [hasKeys, hasK, k]
    pc,         \* position of the run
    entries,    \* `entries` of main (after sort and slice)
    points,     \* `points` handed to computeConstantC
    i,          \* outer loop index of computeConstantC (iterations completed)
    totalNum,   \* running total numerator
    totalDen,   \* running total denominator
    finalG,     \* finalG of computeConstantC (0 before it is computed)
    out,        \* the line written by console.log (<<>>: nothing printed)
    branch,     \* which console.log of main printed
    err,        \* the error caught at line 147 ("" : none)
    prev,       \* outcome of the run on the document before it was shuffled
    poly,       \* the polynomial the points were sampled from, when they were
    str,        \* argument str of a direct call of parseBigIntFromBase
    baseNum,    \* argument baseNum of that call
    dec,        \* what that call returned or threw
    srcN        \* the integer the digit string encodes (-1: not an encoding)

vars == <<doc, keys, pc, entries, points, i, totalNum, totalDen, finalG, out,
          branch, err, prev, poly, str, baseNum, dec, srcN>>

\* ------------------------------------------------------------------ bounds
MaxLen == 3        \* raw digit strings have at most MaxLen characters
MaxN == 40         \* integers encoded for the round trip
MaxZeros == 2      \* leading zero digits added to an encoding
MaxPts == 3        \* points handed to computeConstantC directly
MaxX == 3          \* x-coordinates of those points are in -1..MaxX
MaxY == 2          \* y-values of points not sampled from a polynomial
MaxCoef == 4       \* polynomial coefficients (numerators) are in -1..MaxCoef
MaxD == 2          \* common denominator of the coefficients is in 1..MaxD
MaxEntries == 2    \* entries of a document
MaxKeyX == 1       \* document keys spell integers in -1..MaxKeyX
MaxPad == 1        \* leading zeros in a document key
MaxK == 3          \* keys.k is in -1..MaxK

\* ------------------------------------------------------------------ characters
Radixes == 2..36
WhiteSpace == {9, 10, 11, 12, 13, 32}
\* ' ', '-', '0', '1', '9', 'A', 'a', 'g', 'z'
RawChars == {32, 45, 48, 49, 57, 65, 97, 103, 122}

Undefined == [def |-> FALSE, s |-> <<>>, n |-> 0]
StrVal(s) == [def |-> TRUE, s |-> s, n |-> 0]
NumVal(n) == [def |-> TRUE, s |-> <<>>, n |-> n]

\* ------------------------------------------------------------------ String.prototype
RECURSIVE trimStart(_)
trimStart(s) ==
    IF s # <<>> /\ Head(s) \in WhiteSpace THEN trimStart(Tail(s)) ELSE s

RECURSIVE trimEnd(_)
trimEnd(s) ==
    IF s # <<>> /\ s[Len(s)] \in WhiteSpace
    THEN trimEnd(SubSeq(s, 1, Len(s) - 1)) ELSE s

trim(s) == trimEnd(trimStart(s))

toLowerCase(s) ==
    [j \in 1..Len(s) |-> IF s[j] >= 65 /\ s[j] <= 90 THEN s[j] + 32 ELSE s[j]]

\* line 15: while (s.length > 1 && s[0] === "0") s = s.slice(1)
RECURSIVE stripLeadingZeros(_)
stripLeadingZeros(s) ==
    IF Len(s) > 1 /\ s[1] = 48 THEN stripLeadingZeros(Tail(s)) ELSE s

\* ------------------------------------------------------------------ parseBigIntFromBase
Returned(v) == [ok |-> TRUE, value |-> v, error |-> ""]
Threw(e) == [ok |-> FALSE, value |-> 0, error |-> e]

\* lines 19-21: the digit of a character, -1 when the character is rejected
digitOf_off(ch) ==
    IF ch >= 48 /\ ch <= 57 THEN ch - 48
    ELSE IF ch >= 97 /\ ch <= 122 THEN ch - 97 + 9
    ELSE -1

digitOf(ch) ==
    IF ch >= 48 /\ ch <= 57 THEN ch - 48
    ELSE IF ch >= 97 /\ ch <= 122 THEN ch - 97 + 10
    ELSE -1

RECURSIVE parseLoop_gt(_, _, _)
parseLoop_gt(s, base, value) ==
    IF s = <<>> THEN Returned(value)
    ELSE IF digitOf(Head(s)) < 0 THEN Threw("InvalidCharacter")
    ELSE IF digitOf(Head(s)) > base THEN Threw("DigitNotBelowBase")
    ELSE parseLoop_gt(Tail(s), base, value * base + digitOf(Head(s)))

\* lines 17-25: the loop over the characters, left to right
RECURSIVE parseLoop(_, _, _)
parseLoop(s, base, value) ==
    IF s = <<>> THEN Returned(value)
    ELSE IF digitOf(Head(s)) < 0 THEN Threw("InvalidCharacter")
    ELSE IF digitOf(Head(s)) >= base THEN Threw("DigitNotBelowBase")
    ELSE parseLoop(Tail(s), base, value * base + digitOf(Head(s)))

\* lines 10-27.  `!str` holds of undefined and of the empty string;
\* BigInt(Number(undefined)) = BigInt(NaN) throws a RangeError.
parseBigIntFromBase(strArg, baseArg) ==
    IF ~strArg.def \/ strArg.s = <<>> THEN Returned(0)
    ELSE IF ~baseArg.def THEN Threw("NaNToBigInt")
    ELSE parseLoop(stripLeadingZeros(toLowerCase(trim(strArg.s))), baseArg.n, 0)

\* ------------------------------------------------------------------ base-b digits of an integer
DigitChar(d, upper) ==
    IF d < 10 THEN 48 + d ELSE IF upper THEN 65 + (d - 10) ELSE 97 + (d - 10)

RECURSIVE EncodeDigits(_, _, _)
EncodeDigits(n, b, upper) ==
    IF n < b THEN <<DigitChar(n, upper)>>
    ELSE Append(EncodeDigits(n \div b, b, upper), DigitChar(n % b, upper))

Zeros(z) == [j \in 1..z |-> 48]

Encode(n, b, upper, z) == Zeros(z) \o EncodeDigits(n, b, upper)

RECURSIVE SeqsUpTo(_, _)
SeqsUpTo(S, n) ==
    IF n = 0 THEN {<<>>}
    ELSE LET shorter == SeqsUpTo(S, n - 1)
         IN shorter \cup {Append(t, c) : t \in {u \in shorter : Len(u) = n - 1}, c \in S}

\* ------------------------------------------------------------------ a direct call of the decoder
Idle ==
    /\ doc = <<>> /\ keys = [hasKeys |-> FALSE, hasK |-> FALSE, k |-> 0]
    /\ entries = <<>> /\ points = <<>> /\ i = 0
    /\ totalNum = 0 /\ totalDen = 1 /\ finalG = 0
    /\ out = <<>> /\ branch = "" /\ err = ""
    /\ prev = [pc |-> "none", out |-> <<>>, err |-> ""]
    /\ poly = [def |-> FALSE, coef |-> <<>>, d |-> 1]

InitDecode ==
    /\ Idle
    /\ pc = "call"
    /\ dec = Threw("pending")
    /\ baseNum \in {NumVal(b) : b \in Radixes}
    /\ \/ /\ srcN \in 0..MaxN
          /\ \E upper \in BOOLEAN, z \in 0..MaxZeros :
                str = StrVal(Encode(srcN, baseNum.n, upper, z))
       \/ /\ srcN = -1
          /\ str \in {StrVal(s) : s \in SeqsUpTo(RawChars, MaxLen)}

DecodeCall ==
    /\ pc = "call"
    /\ dec' = parseBigIntFromBase(str, baseNum)
    /\ pc' = IF dec'.ok THEN "returned" ELSE "threw"
    /\ UNCHANGED <<doc, keys, entries, points, i, totalNum, totalDen, finalG,
                   out, branch, err, prev, poly, str, baseNum, srcN>>

NextDecode == DecodeCall

SpecDecode == InitDecode /\ [][NextDecode]_vars

\* ------------------------------------------------------------------ BigInt helpers
\* lines 30-32
absBigInt(x) == IF x < 0 THEN -x ELSE x

\* BigInt `/` truncates toward zero (b # 0; division by 0n throws, see the callers)
BigDiv(a, b) ==
    IF (a >= 0) = (b > 0) THEN absBigInt(a) \div absBigInt(b)
    ELSE -(absBigInt(a) \div absBigInt(b))

\* BigInt `%` takes the sign of the dividend
BigRem(a, b) == a - b * BigDiv(a, b)

RECURSIVE gcdLoop(_, _)
gcdLoop(a, b) == IF b # 0 THEN gcdLoop(b, a % b) ELSE a

bigintGcd_one(a, b) == 1

bigintGcd_safe(a, b) ==
    IF gcdLoop(absBigInt(a), absBigInt(b)) = 0 THEN 1
    ELSE gcdLoop(absBigInt(a), absBigInt(b))

\* lines 35-44
bigintGcd(a, b) == gcdLoop(absBigInt(a), absBigInt(b))

\* BigInt.prototype.toString(): base-10 digits, '-' first when negative
RECURSIVE DecDigits(_)
DecDigits(n) ==
    IF n < 10 THEN <<48 + n>> ELSE Append(DecDigits(n \div 10), 48 + (n % 10))

bigintToString(n) == IF n < 0 THEN <<45>> \o DecDigits(-n) ELSE DecDigits(n)

\* BigInt(key) of a key spelled as an optional '-' and decimal digits
RECURSIVE DecValue(_, _)
DecValue(s, acc) ==
    IF s = <<>> THEN acc ELSE DecValue(Tail(s), acc * 10 + (Head(s) - 48))

StringToBigInt(s) ==
    IF s # <<>> /\ Head(s) = 45 THEN -DecValue(Tail(s), 0) ELSE DecValue(s, 0)

\* ------------------------------------------------------------------ computeConstantC
\* line 64 over the inner loop: product over j # idx of -x_j
RECURSIVE numerProd_pos(_, _, _)
numerProd_pos(pts, idx, j) ==
    IF j > Len(pts) THEN 1
    ELSE IF j = idx THEN numerProd_pos(pts, idx, j + 1)
    ELSE pts[j].x * numerProd_pos(pts, idx, j + 1)

RECURSIVE numerProd(_, _, _)
numerProd(pts, idx, j) ==
    IF j > Len(pts) THEN 1
    ELSE IF j = idx THEN numerProd(pts, idx, j + 1)
    ELSE (-pts[j].x) * numerProd(pts, idx, j + 1)

\* line 65 over the inner loop: product over j # idx of (x_idx - x_j)
RECURSIVE denomProd(_, _, _)
denomProd(pts, idx, j) ==
    IF j > Len(pts) THEN 1
    ELSE IF j = idx THEN denomProd(pts, idx, j + 1)
    ELSE (pts[idx].x - pts[j].x) * denomProd(pts, idx, j + 1)

lagrangeTerm_nosign(pts, idx) ==
    [num |-> pts[idx].y * numerProd(pts, idx, 1), den |-> denomProd(pts, idx, 1)]

\* lines 60-76: termNum / termDen of point idx, sign moved to the numerator
lagrangeTerm(pts, idx) ==
    LET numer == numerProd(pts, idx, 1)
        denom == denomProd(pts, idx, 1)
    IN IF denom < 0
       THEN [num |-> pts[idx].y * (-numer), den |-> -denom]
       ELSE [num |-> pts[idx].y * numer, den |-> denom]

\* a throw anywhere inside the try block: caught at line 147
Throw(e) ==
    /\ pc' = "error"
    /\ err' = e

\* lines 54-86: one iteration of the outer loop
EvalIter ==
    /\ pc = "eval"
    /\ i < Len(points)
    /\ LET term == lagrangeTerm(points, i + 1)
           newNum == totalNum * term.den + term.num * totalDen
           newDen == totalDen * term.den
           g == bigintGcd(IF newNum < 0 THEN -newNum ELSE newNum, newDen)
       IN IF g = 0
          THEN /\ Throw("DivisionByZero")
               /\ UNCHANGED <<i, totalNum, totalDen>>
          ELSE /\ totalNum' = BigDiv(newNum, g)
               /\ totalDen' = BigDiv(newDen, g)
               /\ i' = i + 1
               /\ UNCHANGED <<pc, err>>
    /\ UNCHANGED <<doc, keys, entries, points, finalG, out, branch, prev, poly,
                   str, baseNum, dec, srcN>>

\* lines 88-93: the final reduction and the return
EvalFinal ==
    /\ pc = "eval"
    /\ i = Len(points)
    /\ LET g == bigintGcd(IF totalNum < 0 THEN -totalNum ELSE totalNum, totalDen)
       IN /\ finalG' = g
          /\ IF g = 0
             THEN /\ Throw("DivisionByZero")
                  /\ UNCHANGED <<totalNum, totalDen>>
             ELSE /\ totalNum' = BigDiv(totalNum, g)
                  /\ totalDen' = BigDiv(totalDen, g)
                  /\ pc' = "print"
                  /\ UNCHANGED err
    /\ UNCHANGED <<doc, keys, entries, points, i, out, branch, prev, poly,
                   str, baseNum, dec, srcN>>

\* lines 136-146: num = totalNum, den = totalDen; `num % den` throws when den is 0n
PrintResult ==
    /\ pc = "print"
    /\ IF totalDen = 1
       THEN /\ branch' = "integer"
            /\ out' = bigintToString(totalNum)
            /\ pc' = "done"
            /\ UNCHANGED err
       ELSE IF totalDen = 0
       THEN /\ Throw("DivisionByZero")
            /\ UNCHANGED <<branch, out>>
       ELSE IF BigRem(totalNum, totalDen) = 0
       THEN /\ branch' = "quotient"
            /\ out' = bigintToString(BigDiv(totalNum, totalDen))
            /\ pc' = "done"
            /\ UNCHANGED err
       ELSE /\ branch' = "fraction"
            /\ out' = bigintToString(totalNum) \o <<47>> \o bigintToString(totalDen)
            /\ pc' = "done"
            /\ UNCHANGED err
    /\ UNCHANGED <<doc, keys, entries, points, i, totalNum, totalDen, finalG,
                   prev, poly, str, baseNum, dec, srcN>>

\* ------------------------------------------------------------------ the evaluator on given points
XRange == -1..MaxX

RECURSIVE Power(_, _)
Power(x, e) == IF e = 0 THEN 1 ELSE x * Power(x, e - 1)

RECURSIVE PolyNumer(_, _, _)
PolyNumer(coef, x, j) ==
    IF j > Len(coef) THEN 0 ELSE coef[j] * Power(x, j - 1) + PolyNumer(coef, x, j + 1)

SortedXs(n) ==
    {xs \in [1..n -> XRange] : \A a \in 1..n, b \in 1..n : a < b => xs[a] <= xs[b]}

NoCall ==
    /\ str = Undefined /\ baseNum = Undefined /\ dec = Threw("pending") /\ srcN = -1

NoDocument ==
    /\ doc = <<>> /\ keys = [hasKeys |-> FALSE, hasK |-> FALSE, k |-> 0]
    /\ entries = <<>>
    /\ prev = [pc |-> "none", out |-> <<>>, err |-> ""]

InitEval ==
    /\ NoDocument /\ NoCall
    /\ pc = "eval" /\ i = 0 /\ totalNum = 0 /\ totalDen = 1 /\ finalG = 0
    /\ out = <<>> /\ branch = "" /\ err = ""
    /\ \E n \in 0..MaxPts : \E xs \in SortedXs(n) :
        \/ /\ poly = [def |-> FALSE, coef |-> <<>>, d |-> 1]
           /\ \E ys \in [1..n -> 0..MaxY] :
                points = [j \in 1..n |-> [x |-> xs[j], y |-> ys[j]]]
        \/ /\ n >= 1
           /\ \A a \in 1..n, b \in 1..n : a # b => xs[a] # xs[b]
           /\ \E coef \in [1..n -> -1..MaxCoef], d \in 1..MaxD :
                /\ \A j \in 1..n : /\ PolyNumer(coef, xs[j], 1) % d = 0
                                   /\ PolyNumer(coef, xs[j], 1) >= 0
                /\ poly = [def |-> TRUE, coef |-> coef, d |-> d]
                /\ points = [j \in 1..n |->
                               [x |-> xs[j], y |-> PolyNumer(coef, xs[j], 1) \div d]]

NextEval == EvalIter \/ EvalFinal \/ PrintResult

SpecEval == InitEval /\ [][NextEval]_vars

\* ------------------------------------------------------------------ the document
\* a key spelled with an optional '-', pad leading zeros and the decimal digits
KeyString(x, pad) ==
    (IF x < 0 THEN <<45>> ELSE <<>>) \o Zeros(pad) \o DecDigits(absBigInt(x))

KeyStrings == {KeyString(x, pad) : x \in -1..MaxKeyX, pad \in 0..MaxPad}

\* "base" of an entry: absent, 2 or 10; "value": absent, "0", "1" or "2"
BaseOpts == {Undefined, NumVal(2), NumVal(10)}
ValOpts == {Undefined, StrVal(<<48>>), StrVal(<<49>>), StrVal(<<50>>)}

DocEntries == [key : KeyStrings, base : BaseOpts, val : ValOpts]

\* JSON.parse keeps one property per key
Documents ==
    {d \in SeqsUpTo(DocEntries, MaxEntries) :
        \A a \in 1..Len(d), b \in 1..Len(d) : a # b => d[a].key # d[b].key}

KeysOpts ==
    {[hasKeys |-> FALSE, hasK |-> FALSE, k |-> 0],
     [hasKeys |-> TRUE, hasK |-> FALSE, k |-> 0]}
    \cup {[hasKeys |-> TRUE, hasK |-> TRUE, k |-> n] : n \in -1..MaxK}

\* an own property key that is an array index: the canonical spelling of an
\* integer in 0..2^32-2 (the keys modelled are far below the upper end)
IsArrayIndex(s) == StringToBigInt(s) >= 0 /\ s = bigintToString(StringToBigInt(s))

\* ------------------------------------------------------------------ main
\* insert e behind every element that does not compare greater (the sort is stable)
RECURSIVE insertSorted(_, _)
insertSorted(sorted, e) ==
    IF sorted = <<>> THEN <<e>>
    ELSE IF e.xBig < Head(sorted).xBig THEN <<e>> \o sorted
    ELSE <<Head(sorted)>> \o insertSorted(Tail(sorted), e)

\* line 119: entries.sort by xBig, ascending, equal elements in their given order
RECURSIVE sortByX(_)
sortByX(s) ==
    IF s = <<>> THEN <<>>
    ELSE insertSorted(sortByX(SubSeq(s, 1, Len(s) - 1)), s[Len(s)])

\* lines 111-116
toEntry(e) == [keyStr |-> e.key, xBig |-> StringToBigInt(e.key), base |-> e.base, val |-> e.val]

IsIndexEntry(e) == IsArrayIndex(e.keyStr)
IsNameEntry(e) == ~IsArrayIndex(e.keyStr)

mapEntries(d) == [j \in 1..Len(d) |-> toEntry(d[j])]

\* lines 109-116: Object.keys lists the array-index keys in ascending numeric
\* order, then the other keys in the order the document gave them
collectEntries(d) ==
    sortByX(SelectSeq(mapEntries(d), IsIndexEntry)) \o SelectSeq(mapEntries(d), IsNameEntry)

sliceFirst_clamped(s, k) ==
    IF k <= 0 THEN <<>>
    ELSE IF k >= Len(s) THEN s
    ELSE SubSeq(s, 1, k)

\* line 127: Array.prototype.slice(0, k); a negative k counts from the end
sliceFirst(s, k) ==
    IF k < 0 THEN SubSeq(s, 1, IF Len(s) + k > 0 THEN Len(s) + k ELSE 0)
    ELSE IF k >= Len(s) THEN s
    ELSE SubSeq(s, 1, k)

StartRun ==
    /\ pc = "start"
    /\ entries = <<>> /\ points = <<>> /\ i = 0
    /\ totalNum = 0 /\ totalDen = 1 /\ finalG = 0
    /\ out = <<>> /\ branch = "" /\ err = ""

Init ==
    /\ NoCall
    /\ poly = [def |-> FALSE, coef |-> <<>>, d |-> 1]
    /\ prev = [pc |-> "none", out |-> <<>>, err |-> ""]
    /\ doc \in Documents
    /\ keys \in KeysOpts
    /\ StartRun

\* lines 102-104
CheckKeys ==
    /\ pc = "start"
    /\ IF ~keys.hasKeys \/ ~keys.hasK
       THEN Throw("MissingKeys")
       ELSE pc' = "collect" /\ UNCHANGED err
    /\ UNCHANGED <<doc, keys, entries, points, i, totalNum, totalDen, finalG,
                   out, branch, prev, poly, str, baseNum, dec, srcN>>

\* lines 106-127
SelectEntries ==
    /\ pc = "collect"
    /\ LET sorted == sortByX(collectEntries(doc))
       IN IF Len(sorted) < keys.k
          THEN /\ Throw("NotEnoughPoints")
               /\ entries' = sorted
          ELSE /\ entries' = sliceFirst(sorted, keys.k)
               /\ pc' = "decode"
               /\ UNCHANGED err
    /\ UNCHANGED <<doc, keys, points, i, totalNum, totalDen, finalG,
                   out, branch, prev, poly, str, baseNum, dec, srcN>>

decoded(es) == [j \in 1..Len(es) |-> parseBigIntFromBase(es[j].val, es[j].base)]

\* lines 130-133, and lines 49-52 on entry to computeConstantC
FormPoints ==
    /\ pc = "decode"
    /\ LET ys == decoded(entries)
           bad == {j \in 1..Len(entries) : ~ys[j].ok}
       IN IF bad # {}
          THEN /\ Throw(ys[CHOOSE j \in bad : \A h \in bad : j <= h].error)
               /\ UNCHANGED points
          ELSE /\ points' = [j \in 1..Len(entries) |->
                                [x |-> entries[j].xBig, y |-> ys[j].value]]
               /\ pc' = "eval"
               /\ UNCHANGED err
    /\ UNCHANGED <<doc, keys, entries, i, totalNum, totalDen, finalG,
                   out, branch, prev, poly, str, baseNum, dec, srcN>>

Permuted(d, f) == [j \in 1..Len(d) |-> d[f[j]]]

\* lines 99-100 on the same document with its entries in another order
Shuffle ==
    /\ pc \in {"done", "error"}
    /\ \E f \in [1..Len(doc) -> 1..Len(doc)] :
        /\ \A a \in 1..Len(doc), b \in 1..Len(doc) : a # b => f[a] # f[b]
        /\ Permuted(doc, f) # doc
        /\ doc' = Permuted(doc, f)
    /\ prev' = [pc |-> pc, out |-> out, err |-> err]
    /\ pc' = "start"
    /\ entries' = <<>> /\ points' = <<>> /\ i' = 0
    /\ totalNum' = 0 /\ totalDen' = 1 /\ finalG' = 0
    /\ out' = <<>> /\ branch' = "" /\ err' = ""
    /\ UNCHANGED <<keys, poly, str, baseNum, dec, srcN>>

Next ==
    \/ CheckKeys
    \/ SelectEntries
    \/ FormPoints
    \/ EvalIter
    \/ EvalFinal
    \/ PrintResult
    \/ Shuffle

Spec == Init /\ [][Next]_vars

\* ------------------------------------------------------------------ properties
HasDuplicateX(pts) == \E a \in 1..Len(pts), b \in 1..Len(pts) : a # b /\ pts[a].x = pts[b].x

Coprime(a, b) == \A q \in 2..b : a % q # 0 \/ b % q # 0

IntegerCoefficients == \A j \in 1..Len(poly.coef) : poly.coef[j] % poly.d = 0

Quadratic == <<[x |-> 1, y |-> 3], [x |-> 2, y |-> 6], [x |-> 3, y |-> 11]>>
Linear == <<[x |-> 1, y |-> 5], [x |-> 2, y |-> 9]>>

\* the general part of C1: the returned fraction is P(0), printed as an integer
\* when the coefficients of P are integers
ReturnsConstantTerm ==
    poly.def =>
        /\ pc # "error"
        /\ pc \in {"print", "done"} =>
              /\ totalDen # 0
              /\ totalNum * poly.d = poly.coef[1] * totalDen
        /\ (pc = "done" /\ IntegerCoefficients) =>
              out = bigintToString(poly.coef[1] \div poly.d)

\* C1 as stated: for k >= 1 points with pairwise distinct x on a polynomial P of
\* degree <= k-1 the returned fraction equals P(0), an integer P(0) is printed in
\* base 10, and (1,3),(2,6),(3,11) prints 1 and (1,5),(2,9) prints 1.
C1_AsStated ==
    /\ ReturnsConstantTerm
    /\ (pc = "done" /\ points = Quadratic) => out = <<49>>
    /\ (pc = "done" /\ points = Linear) => out = <<49>>

\* C1 amended: as stated, except that (1,3),(2,6),(3,11), which lie on x^2 + 2,
\* print 2; (1,5),(2,9) print 1.
C1_ConstantTerm ==
    /\ ReturnsConstantTerm
    /\ (pc = "done" /\ points = Quadratic) => out = <<50>>
    /\ (pc = "done" /\ points = Linear) => out = <<49>>

C1_Witness == pc = "done" /\ poly.def /\ points = Quadratic /\ out = <<50>>

\* C2: the outcome of a run (printed line or failure) on a document equals the
\* outcome on the same document with its entries in any other order.
C2_OrderIndependence ==
    (prev.pc # "none" /\ pc \in {"done", "error"}) =>
        prev = [pc |-> pc, out |-> out, err |-> err]

Selected == keys.hasKeys /\ keys.hasK /\ pc \notin {"start", "collect"}

\* C3: with n entries and keys.k = k, n < k fails with the insufficient-points
\* error and prints nothing; otherwise exactly the k entries of smallest x are
\* handed on, in ascending order of x.
C3_Selection ==
    Selected =>
        IF Len(doc) < keys.k
        THEN pc = "error" /\ err = "NotEnoughPoints" /\ out = <<>>
        ELSE /\ Len(entries) = keys.k
             /\ \A a \in 1..Len(entries), b \in 1..Len(entries) :
                   a < b => entries[a].xBig <= entries[b].xBig
             /\ \A a \in 1..Len(entries), b \in 1..Len(doc) :
                   (\A c \in 1..Len(entries) : entries[c].keyStr # doc[b].key)
                       => entries[a].xBig <= StringToBigInt(doc[b].key)

\* C4: the evaluator is never given an empty point set, and keys.k = 0 never
\* ends in a printed result.
C4_AtLeastOnePoint ==
    /\ pc \in {"eval", "print", "done"} => Len(points) >= 1
    /\ (keys.hasK /\ keys.k = 0) => pc # "done" /\ out = <<>>

\* C5: when two of the points given to the evaluator share an x, the loop of
\* computeConstantC never gets past the second of them: the run is still in the
\* loop before that point or has ended in the division-by-zero error, and
\* nothing is ever printed.
C5_DuplicateXFatal ==
    HasDuplicateX(points) =>
        /\ pc \in {"eval", "error"}
        /\ pc = "error" => err = "DivisionByZero"
        /\ pc = "eval" =>
              \E a \in 1..Len(points), b \in 1..Len(points) :
                  a < b /\ points[a].x = points[b].x /\ i < b
        /\ out = <<>>

C5_Witness ==
    /\ pc = "error" /\ err = "DivisionByZero" /\ Len(points) = 3 /\ i = 2
    /\ points[1].x # points[2].x /\ points[2].x = points[3].x
    /\ points[2].y # points[3].y /\ points[2].y # 0 /\ points[2].x # 0

ValidDigit(ch, radix) ==
    \/ ch \in 48..57 /\ ch - 48 < radix
    \/ ch \in 97..122 /\ ch - 87 < radix
    \/ ch \in 65..90 /\ ch - 55 < radix

\* C6 as stated: the decoder throws whenever the digit string holds a character
\* that is no alphanumeric digit or whose digit is not below the radix, and
\* otherwise returns a value that is not negative.
C6_AsStated ==
    pc \in {"returned", "threw"} =>
        IF \E j \in 1..Len(str.s) : ~ValidDigit(str.s[j], baseNum.n)
        THEN ~dec.ok
        ELSE dec.ok /\ dec.value >= 0

\* C6 amended: the same of the digit string with the white space at its two ends
\* removed (String.prototype.trim).
C6_InvalidDigitFails ==
    pc \in {"returned", "threw"} =>
        IF \E j \in 1..Len(trim(str.s)) : ~ValidDigit(trim(str.s)[j], baseNum.n)
        THEN ~dec.ok /\ dec.error \in {"InvalidCharacter", "DigitNotBelowBase"}
        ELSE dec.ok /\ dec.value >= 0

C6_Witness ==
    /\ pc = "threw" /\ dec.error = "DigitNotBelowBase"
    /\ str.s = <<49, 103>> /\ baseNum.n = 16

\* C7: decoding the base-b digits of n, in either letter case and behind any
\* number of leading zeros, returns n.
C7_RoundTrip ==
    (pc \in {"returned", "threw"} /\ srcN >= 0) => dec.ok /\ dec.value = srcN

C7_Witness ==
    /\ pc = "returned" /\ srcN = 35 /\ baseNum.n = 36 /\ str.s = <<48, 48, 90>>
    /\ dec.value = 35

\* C8: a run on a document without keys, without keys.k, or with a selected
\* entry that lacks base or value never gets as far as a point set or a result.
C8_MalformedFails ==
    pc \in {"eval", "print", "done"} =>
        /\ keys.hasKeys /\ keys.hasK
        /\ \A j \in 1..Len(entries) : entries[j].base.def /\ entries[j].val.def

\* C9: for pairwise distinct x the running total has a positive denominator
\* coprime to the numerator after every iteration, the loop never throws, and
\* the final reduction divides by 1.
C9_TotalReduced ==
    ~HasDuplicateX(points) =>
        /\ pc # "error"
        /\ totalDen > 0
        /\ Coprime(absBigInt(totalNum), totalDen)
        /\ pc \in {"print", "done"} => finalG = 1

C9_Witness ==
    /\ pc = "eval" /\ i = 2 /\ Len(points) = 3 /\ ~HasDuplicateX(points)
    /\ totalDen > 1 /\ totalNum # 0
    /\ totalDen < lagrangeTerm(points, 1).den * lagrangeTerm(points, 2).den

\* C10: a finished run never printed through the quotient branch: it printed
\* the numerator alone with den = 1, or num/den with den > 1 coprime to num.
C10_QuotientBranchDead ==
    pc = "done" =>
        \/ /\ branch = "integer" /\ totalDen = 1
           /\ out = bigintToString(totalNum)
        \/ /\ branch = "fraction" /\ totalDen > 1
           /\ Coprime(absBigInt(totalNum), totalDen)
           /\ out = bigintToString(totalNum) \o <<47>> \o bigintToString(totalDen)

C10_Witness ==
    /\ pc = "done" /\ branch = "fraction" /\ out = <<49, 47, 50>>
    /\ points = <<[x |-> 1, y |-> 1], [x |-> 3, y |-> 2]>>

====
